---- MODULE Spec2Model ----
(***************************************************************************)
(* A model of the pytest-testmon plugin layer (testmon/pytest_testmon.py): *)
(* plugin registration, test selection, ordering by historical duration,   *)
(* recording of fingerprints and the end-of-session hooks.  The engine of  *)
(* testmon.testmon_core and testmon.configure is modelled at its interface *)
(* (TestmonData, Testmon, header_collect_select).                          *)
(***************************************************************************)
EXTENDS Integers, Sequences, FiniteSets, TLC

(***************************************************************************)
(* Universe.  A node id "m1.py::A::t1" is the tuple of its "::" parts.     *)
(***************************************************************************)
MaxDur == 2

T1 == <<"m1.py", "A", "t1">>
T2 == <<"m1.py", "A", "t2">>
T3 == <<"m1.py", "B", "t3">>
T4 == <<"m2.py", "t4">>

NodeIds == {T1, T2, T3, T4}

None == "None"

\* The absence of a record (a missing row, an unset attribute).
Absent == [absent |-> TRUE]

Range(s) == {s[i] : i \in DOMAIN s}

RECURSIVE SumOver(_, _)
SumOver(f, S) ==
    IF S = {} THEN 0
    ELSE LET x == CHOOSE y \in S : TRUE IN f[x] + SumOver(f, S \ {x})

(***************************************************************************)
(* testmon_core helpers on node ids.                                       *)
(***************************************************************************)
home_file(nodeid) == nodeid[1]

get_node_module_name(nodeid) == <<nodeid[1]>>

\* The class key; a test outside any class falls back to its module.
get_node_class_name(nodeid) ==
    IF Len(nodeid) = 3 THEN <<nodeid[1], nodeid[2]>>
    ELSE get_node_module_name(nodeid)

DurationKeys ==
    NodeIds \cup {get_node_class_name(n) : n \in NodeIds}
            \cup {get_node_module_name(n) : n \in NodeIds}

KeyMembers(key, known) ==
    {n \in known : key \in {n, get_node_class_name(n), get_node_module_name(n)}}

\* TestmonData.avg_durations: the historical average duration of a test, a
\* class and a module, 0 without history.  Averages are kept exact by scaling
\* with 12 (every group has 1, 2, 3 or 4 members).
AvgDurations(durs) ==
    [key \in DurationKeys |->
        LET members == KeyMembers(key, DOMAIN durs)
        IN  IF members = {} THEN 0
            ELSE (SumOver(durs, members) * 12) \div Cardinality(members)]

(***************************************************************************)
(* list.sort(key=...): a stable ascending sort.                            *)
(***************************************************************************)
InsertStable(sorted, x, key) ==
    LET p == Cardinality({i \in 1..Len(sorted) : key[sorted[i]] <= key[x]})
    IN  SubSeq(sorted, 1, p) \o <<x>> \o SubSeq(sorted, p + 1, Len(sorted))

RECURSIVE StableSort(_, _)
StableSort(s, key) ==
    IF s = <<>> THEN <<>>
    ELSE InsertStable(StableSort(SubSeq(s, 1, Len(s) - 1), key), s[Len(s)], key)

SortKey(nodeid, which) ==
    CASE which = "node"   -> nodeid
      [] which = "class"  -> get_node_class_name(nodeid)
      [] which = "module" -> get_node_module_name(nodeid)

\* One items.sort(key=lambda item: avg_durations[...]) call.
sort_pass(items, avg_durations, which) ==
    StableSort(items, [n \in NodeIds |-> avg_durations[SortKey(n, which)]])

\* The keys of the three sort calls, in program order.
SortPassesCoarseFirst == <<"module", "class", "node">>

SortPassesClassLast == <<"node", "module", "class">>

SortPassesClassFirst == <<"class", "node", "module">>

SortPasses == <<"node", "class", "module">>

RECURSIVE sort_passes_from(_, _, _)
sort_passes_from(items, avg_durations, k) ==
    IF k > Len(SortPasses) THEN items
    ELSE sort_passes_from(sort_pass(items, avg_durations, SortPasses[k]),
                          avg_durations, k + 1)

sort_items_by_duration(items, avg_durations) ==
    sort_passes_from(items, avg_durations, 1)

(***************************************************************************)
(* The run: files, the persisted database and the host's session.          *)
(***************************************************************************)
Files == {"m1.py", "m2.py"}
Checksums == {"h1", "h2"}

\* The tests of the project and the order in which the host collects them.
CollectionOrder == <<T1, T3>>
RunNodes == Range(CollectionOrder)

\* The paths of the project in the order the host visits them.
CollectionPaths == <<"m1.py", "m2.py">>

\* The files the tracer reports for a test in this run.  T1 no longer uses
\* code of m2.py; T3 now does.
TraceChoices(nodeid) ==
    CASE nodeid = T1 -> {{"m1.py"}}
      [] OTHER       -> {{"m1.py", "m2.py"}}

\* The fingerprints an earlier run can have left for a test.
OldTraces(nodeid) ==
    CASE nodeid = T1 -> {{"m1.py", "m2.py"}}
      [] OTHER       -> {{}, {"m1.py"}}

Phases == <<"setup", "call", "teardown">>

\* The durations a phase report can carry.
PhaseDurations(when) == IF when = "call" THEN 1..MaxDur ELSE {1}

VARIABLES
    pc,              \* the host's position in the session
    fs,              \* current content checksum of every file
    source,          \* the tests that exist in the source files
    db_nodes,        \* persisted Test Nodes: fingerprint, failed, duration
    db_files,        \* persisted Checksum Store: file -> last checksum
    db0,             \* the persisted nodes when the run began
    should_collect,  \* config.testmon_config[1]
    should_select,   \* config.testmon_config[2]
    plugins,         \* names registered with the plugin manager
    testmon_data,    \* the TestmonData view computed by init_testmon_data
    deselected_files,\* TestmonSelect.deselected_files
    deselected_nodes,\* TestmonSelect.deselected_nodes
    is_worker,       \* TestmonCollect._is_worker
    raw_nodeids,     \* TestmonCollect.raw_nodeids
    ignored,         \* files for which pytest_ignore_collect returned True
    collected,       \* session.items as the collection produced them
    items,           \* session.items
    selected,        \* the local list 'selected' of modifyitems
    deselected,      \* the local list 'deselected' of modifyitems
    n_deselected,    \* number of items reported through pytest_deselected
    cur,             \* index in items of the test being run
    phase,           \* position inside the current test's protocol
    report,          \* the report made and not yet logged
    reports,         \* TestmonCollect.reports
    tracing,         \* whether Testmon is started
    stops,           \* stops issued since the last start
    host_failed,     \* per test: some phase failed, as the host saw it
    host_duration,   \* per test: total of the phase durations
    host_trace,      \* per test: the files the tracer saw
    host_done,       \* tests whose teardown report has been logged
    testsfailed,     \* session.testsfailed
    exitstatus,      \* the exit status the host reports to pytest_sessionfinish
    session_exitstatus, \* session.exitstatus
    exit_message,    \* the message of pytest.exit, if it was called
    db_calls,        \* database operations invoked by the plugins
    save_calls,      \* per test: number of save_fingerprints calls
    gc_process,      \* the kind of process that ran the garbage collection
    collection,      \* the host's progress through the collection
    received,        \* the list TestmonSelect's modifyitems handler was given
    closed,          \* whether Testmon.close() has been called
    sort_input,      \* orderer: the list given to sort_items_by_duration
    sort_durations,  \* orderer: the recorded duration of every test
    sort_items,      \* orderer: the list being sorted in place
    sort_done        \* orderer: the keys of the sort calls made so far

runVars ==
    <<pc, fs, source, db_nodes, db_files, db0, should_collect, should_select,
      plugins, testmon_data, deselected_files, deselected_nodes, is_worker,
      raw_nodeids, ignored, collected, items, selected, deselected,
      n_deselected, cur, phase, report, reports, tracing, stops, host_failed,
      host_duration, host_trace, host_done, testsfailed, exitstatus,
      session_exitstatus, exit_message,
      db_calls, save_calls, gc_process, collection, received, closed>>

\* What only the collection and the session-level hooks change.
hookVars == <<collection, received, closed>>

sortVars == <<sort_input, sort_durations, sort_items, sort_done>>

vars == <<runVars, sortVars>>

(***************************************************************************)
(* The persisted database and the stability engine (testmon_core).         *)
(***************************************************************************)
Persisted(nodes) == {n \in DOMAIN nodes : nodes[n] # Absent}

Referenced(nodes) ==
    UNION {DOMAIN nodes[n].fingerprint : n \in Persisted(nodes)}

\* TestmonData.determine_stable together with the views all_nodes and
\* avg_durations that the plugins read.
determine_stable(nodes, files, current) ==
    LET stable_files == {f \in DOMAIN files : current[f] = files[f]}
        known == Persisted(nodes)
    IN  [all_nodes |-> [n \in known |-> [failed |-> nodes[n].failed]],
         stable_files |-> stable_files,
         unstable_files |-> (DOMAIN files) \ stable_files,
         stable_nodeids |->
            {n \in known : DOMAIN nodes[n].fingerprint \subseteq stable_files},
         avg_durations |-> AvgDurations([n \in known |-> nodes[n].duration])]

\* Testmon.save_fingerprints: one atomic replacement of the node's record,
\* with the checksum entries of the files it references.
save_fingerprints(nodes, nodeid, fingerprint, failed, duration) ==
    [nodes EXCEPT ![nodeid] = [fingerprint |-> fingerprint,
                               failed |-> failed,
                               duration |-> duration]]

save_checksums(files, fingerprint) ==
    [f \in DOMAIN files \cup DOMAIN fingerprint |->
        IF f \in DOMAIN fingerprint THEN fingerprint[f] ELSE files[f]]

\* TestmonData.sync_db_fs_nodes(retain): forget the nodes not in retain.
sync_db_fs_nodes(nodes, retain) ==
    [n \in DOMAIN nodes |-> IF n \in retain THEN nodes[n] ELSE Absent]

\* db.remove_unused_fingerprints(): drop checksum entries no node references.
remove_unused_fingerprints(nodes, files) ==
    [f \in DOMAIN files \cap Referenced(nodes) |-> files[f]]

(***************************************************************************)
(* Plugin code of pytest_testmon.py.                                       *)
(***************************************************************************)
\* Python truthiness of a value that is "None", "True" or "False".
Truthy(v) == v = "True"

did_fail_inverted(reports_) == ~reports_.failed

did_fail(reports_) == reports_.failed

get_failing(all_nodes) ==
    LET failing == {n \in DOMAIN all_nodes : did_fail(all_nodes[n])}
    IN  [failing_files |-> {home_file(n) : n \in failing},
         failing_nodes |-> failing]

TestmonSelectInitStableOnly(td) ==
    [deselected_files |-> td.stable_files,
     deselected_nodes |-> td.stable_nodeids]

\* TestmonSelect.__init__
TestmonSelectInit(td) ==
    LET f == get_failing(td.all_nodes)
    IN  [deselected_files |-> td.stable_files \ f.failing_files,
         deselected_nodes |-> td.stable_nodeids \ f.failing_nodes]

register_plugins_both(select, collect) ==
    IF select \/ collect THEN {"TestmonSelect", "TestmonCollect"} ELSE {}

register_plugins(select, collect) ==
    (IF select \/ collect THEN {"TestmonSelect"} ELSE {})
        \cup (IF collect THEN {"TestmonCollect"} ELSE {})

pytest_ignore_collect(path, files_, select) ==
    path \in files_ /\ select

\* TestmonCollect.__init__(testmon, testmon_data, is_worker=None), as
\* register_plugins calls it: without the third argument.
TestmonCollectIsWorker == None

\* Variant: outcome and duration of the teardown report alone.
process_result_teardown_only(result) ==
    [failed |-> result["teardown"].outcome = "failed",
     duration |-> result["teardown"].duration]

process_result(result) ==
    [failed |-> \E w \in DOMAIN result : result[w].outcome = "failed",
     duration |-> SumOver([w \in DOMAIN result |-> result[w].duration],
                          DOMAIN result)]

Filter(seq, S) == SelectSeq(seq, LAMBDA x : x \in S)

(***************************************************************************)
(* Initial states.                                                         *)
(***************************************************************************)
\* The durations an earlier run has stored: enough for either test to be the
\* faster one, or for a tie.
OldDurations == {1, 2}

\* A record left by an earlier run, taken when every file had checksum "h1".
OldRecords(nodeid) ==
    {[fingerprint |-> [f \in F |-> "h1"], failed |-> b, duration |-> d] :
        F \in OldTraces(nodeid), b \in BOOLEAN, d \in OldDurations}

SortIdle ==
    /\ sort_input = <<>>
    /\ sort_durations = [n \in NodeIds |-> 0]
    /\ sort_items = <<>>
    /\ sort_done = <<>>

\* Nothing configured, collected or run yet.
RunBlank ==
    /\ db_files = [f \in Referenced(db_nodes) |-> "h1"]
    /\ db0 = db_nodes
    /\ should_collect = FALSE
    /\ should_select = FALSE
    /\ plugins = {}
    /\ testmon_data = Absent
    /\ deselected_files = {}
    /\ deselected_nodes = {}
    /\ is_worker = "unset"
    /\ raw_nodeids = <<>>
    /\ ignored = {}
    /\ collected = <<>>
    /\ items = <<>>
    /\ selected = <<>>
    /\ deselected = <<>>
    /\ n_deselected = 0
    /\ cur = 0
    /\ phase = "idle"
    /\ report = Absent
    /\ reports = [n \in RunNodes |-> <<>>]
    /\ tracing = FALSE
    /\ stops = 0
    /\ host_failed = [n \in RunNodes |-> FALSE]
    /\ host_duration = [n \in RunNodes |-> 0]
    /\ host_trace = [n \in RunNodes |-> Absent]
    /\ host_done = {}
    /\ testsfailed = 0
    /\ exitstatus = None
    /\ session_exitstatus = None
    /\ exit_message = None
    /\ db_calls = {}
    /\ save_calls = [n \in RunNodes |-> 0]
    /\ gc_process = None
    /\ collection = [finished |-> FALSE, paths |-> CollectionPaths,
                     objects |-> <<>>, made |-> <<>>]
    /\ received = <<>>
    /\ closed = FALSE

\* A test that has a record and is gone from its file: the file has changed
\* since the record was taken.
SourceConsistent ==
    \A n \in RunNodes :
        (n \notin source /\ db_nodes[n] # Absent) => fs[home_file(n)] # "h1"

RunInit ==
    /\ pc = "start"
    /\ fs \in [Files -> Checksums]
    /\ source \in {RunNodes \ gone :
                        gone \in {{}, RunNodes} \cup {{n} : n \in RunNodes}}
    /\ db_nodes \in {nodes \in [RunNodes -> {Absent} \cup UNION {OldRecords(n) : n \in RunNodes}] :
                        \A n \in RunNodes : nodes[n] = Absent \/ nodes[n] \in OldRecords(n)}
    /\ SourceConsistent
    /\ RunBlank

\* The run is not part of the behaviour (the orderer is studied alone).
RunIdle ==
    /\ pc = "idle"
    /\ fs = [f \in Files |-> "h1"]
    /\ source = RunNodes
    /\ db_nodes = [n \in RunNodes |-> Absent]
    /\ RunBlank

Init == RunInit /\ SortIdle

(***************************************************************************)
(* pytest_configure                                                        *)
(***************************************************************************)
\* Where a TestmonException can be raised inside the try block.
ConfigureErrors == {"none", "init_testmon_data", "register_plugins"}

\* Variant: the exception is swallowed and the run goes on.
ConfigureSwallowsError(error) == "configured"

\* pytest_configure: 'except TestmonException as error: pytest.exit(str(error))'
\* ends the run; without an exception the session goes on to collection.
AfterConfigure(error) == IF error = "none" THEN "configured" ELSE "exited"

Configure ==
    /\ pc = "start"
    /\ \E collect \in BOOLEAN, select \in BOOLEAN, error \in ConfigureErrors :
        /\ should_collect' = collect
        /\ should_select' = select
        /\ IF ~(select \/ collect)
           THEN \* testmon is off: no hook of the plugins runs in this session
                /\ error = "none"
                /\ pc' = "inactive"
                /\ UNCHANGED <<testmon_data, plugins, deselected_files,
                               deselected_nodes, exit_message>>
           ELSE IF error = "init_testmon_data"
           THEN /\ pc' = AfterConfigure(error)
                /\ exit_message' = error
                /\ UNCHANGED <<testmon_data, plugins, deselected_files,
                               deselected_nodes>>
           ELSE LET td == determine_stable(db_nodes, db_files, fs)
                    sel == TestmonSelectInit(td)
                IN  /\ testmon_data' = td
                    /\ deselected_files' = sel.deselected_files
                    /\ deselected_nodes' = sel.deselected_nodes
                    /\ IF error = "register_plugins"
                       THEN \* Testmon(...) raised after TestmonSelect was registered
                            /\ collect
                            /\ plugins' = {"TestmonSelect"}
                            /\ pc' = AfterConfigure(error)
                            /\ exit_message' = error
                       ELSE /\ plugins' = register_plugins(select, collect)
                            /\ pc' = AfterConfigure(error)
                            /\ UNCHANGED exit_message
        /\ is_worker' = IF "TestmonCollect" \in plugins'
                        THEN TestmonCollectIsWorker ELSE is_worker
    /\ UNCHANGED host_done
    /\ UNCHANGED <<fs, source, db_nodes, db_files, db0, raw_nodeids,
                   ignored, collected, items, selected, deselected,
                   n_deselected, cur, phase, report, reports, tracing, stops,
                   host_failed, host_duration, host_trace, testsfailed,
                   exitstatus, session_exitstatus, db_calls, save_calls,
                   gc_process>>
    /\ UNCHANGED hookVars
    /\ UNCHANGED sortVars

(***************************************************************************)
(* Collection: pytest_ignore_collect and pytest_pycollect_makeitem.        *)
(***************************************************************************)
\* The host ends the run: it sets session.exitstatus and passes it to
\* pytest_sessionfinish.
HostFinish(status) ==
    /\ pc' = "finishing"
    /\ exitstatus' = status
    /\ session_exitstatus' = status

\* The host visits the next path and asks pytest_ignore_collect
\* (TestmonSelect's, when registered); a path that is not ignored is
\* collected, which can fail (a collection error is counted in
\* session.testsfailed and the collection goes on).
CollectPath ==
    /\ pc = "configured"
    /\ collection.objects = <<>>
    /\ collection.paths # <<>>
    /\ LET path == Head(collection.paths)
           skip == /\ "TestmonSelect" \in plugins
                   /\ pytest_ignore_collect(path, deselected_files, should_select)
       IN  IF skip
           THEN /\ ignored' = ignored \cup {path}
                /\ collection' = [collection EXCEPT !.paths = Tail(@)]
                /\ UNCHANGED testsfailed
           ELSE \E outcome \in {"ok", "error"} :
                /\ UNCHANGED ignored
                /\ IF outcome = "ok"
                   THEN /\ collection' =
                              [collection EXCEPT
                                  !.paths = Tail(@),
                                  !.objects = Filter(CollectionOrder,
                                      {n \in source : home_file(n) = path})]
                        /\ UNCHANGED testsfailed
                   ELSE /\ collection' = [collection EXCEPT !.paths = Tail(@)]
                        /\ testsfailed' = 1
    /\ UNCHANGED <<pc, fs, source, db_nodes, db_files, db0, should_collect,
                   should_select, plugins, testmon_data, deselected_files,
                   deselected_nodes, is_worker, raw_nodeids, collected, items,
                   selected, deselected, n_deselected, cur, phase, report,
                   reports, tracing, stops, host_failed, host_duration,
                   host_trace, host_done, exitstatus, session_exitstatus,
                   exit_message, db_calls, save_calls, gc_process, received,
                   closed>>
    /\ UNCHANGED sortVars

\* TestmonCollect.pytest_pycollect_makeitem around the host's making of one
\* test item: the item's node id is appended to raw_nodeids.
MakeItem ==
    /\ pc = "configured"
    /\ collection.objects # <<>>
    /\ LET nodeid == Head(collection.objects)
       IN  /\ collection' = [collection EXCEPT !.objects = Tail(@),
                                               !.made = Append(@, nodeid)]
           /\ raw_nodeids' = IF "TestmonCollect" \in plugins
                             THEN Append(raw_nodeids, nodeid) ELSE raw_nodeids
    /\ UNCHANGED <<pc, fs, source, db_nodes, db_files, db0, should_collect,
                   should_select, plugins, testmon_data, deselected_files,
                   deselected_nodes, is_worker, ignored, collected, items,
                   selected, deselected, n_deselected, cur, phase, report,
                   reports, tracing, stops, host_failed, host_duration,
                   host_trace, host_done, testsfailed, exitstatus,
                   session_exitstatus, exit_message, db_calls, save_calls,
                   gc_process, received, closed>>
    /\ UNCHANGED sortVars

\* The host has visited every path: the items made that match the
\* command-line arguments (all of them, or all but one when a node id was
\* given) become session.items.
CollectionDone ==
    /\ pc = "configured"
    /\ collection.paths = <<>>
    /\ collection.objects = <<>>
    /\ \E unmatched \in {{}} \cup {{n} : n \in Range(collection.made)} :
          /\ collected' = Filter(collection.made, Range(collection.made) \ unmatched)
          /\ items' = collected'
    /\ collection' = [collection EXCEPT !.finished = TRUE]
    /\ pc' = "collected"
    /\ UNCHANGED <<fs, source, db_nodes, db_files, db0, should_collect,
                   should_select, plugins, testmon_data, deselected_files,
                   deselected_nodes, is_worker, raw_nodeids, ignored, selected,
                   deselected, n_deselected, cur, phase, report, reports,
                   tracing, stops, host_failed, host_duration, host_trace,
                   host_done, testsfailed, exitstatus, session_exitstatus,
                   exit_message, db_calls, save_calls, gc_process, received,
                   closed>>
    /\ UNCHANGED sortVars

\* The collection is broken off: by a usage error before the first path is
\* visited, or by an internal error or an interrupt between any two
\* callbacks.
CollectAbort ==
    /\ pc = "configured"
    /\ \E status \in {"USAGE_ERROR", "INTERNAL_ERROR", "INTERRUPTED"} :
        /\ status = "USAGE_ERROR" =>
              collection.paths = CollectionPaths /\ collection.objects = <<>>
        /\ HostFinish(status)
    /\ UNCHANGED <<fs, source, db_nodes, db_files, db0, should_collect,
                   should_select, plugins, testmon_data, deselected_files,
                   deselected_nodes, is_worker, raw_nodeids, ignored, collected,
                   items, selected, deselected, n_deselected, cur, phase,
                   report, reports, tracing, stops, host_failed, host_duration,
                   host_trace, host_done, testsfailed, exit_message, db_calls,
                   save_calls, gc_process>>
    /\ UNCHANGED hookVars
    /\ UNCHANGED sortVars

(***************************************************************************)
(* pytest_collection_modifyitems: TestmonCollect's handler runs first,     *)
(* TestmonSelect's last.                                                   *)
(***************************************************************************)
\* Variant: the reconciliation runs whatever the failure count.
should_sync_always(failures) == TRUE

\* TestmonCollect.pytest_collection_modifyitems
should_sync(failures) == failures = 0

\* Variant: every item is appended to 'selected' (the else is lost).
SelectModifyItemsNoElse(given, nodes_, avg, select) ==
    LET sel == sort_items_by_duration(given, avg)
        des == Filter(given, nodes_)
    IN  IF select
        THEN [selected |-> sel, deselected |-> des, items |-> sel,
              reported |-> Cardinality(nodes_)]
        ELSE LET sorted == sort_items_by_duration(des, avg)
             IN  [selected |-> sel, deselected |-> sorted,
                  items |-> sel \o sorted, reported |-> 0]

\* Variant: without selection the list is left as it was collected.
SelectModifyItemsNoOrder(given, nodes_, avg, select) ==
    LET sel == sort_items_by_duration(
                   Filter(given, Range(given) \ nodes_), avg)
        des == Filter(given, nodes_)
    IN  IF select
        THEN [selected |-> sel, deselected |-> des, items |-> sel,
              reported |-> Cardinality(nodes_)]
        ELSE [selected |-> sel, deselected |-> des, items |-> given,
              reported |-> 0]

\* TestmonSelect.pytest_collection_modifyitems: the locals and the new list.
SelectModifyItems(given, nodes_, avg, select) ==
    LET sel == sort_items_by_duration(
                   Filter(given, Range(given) \ nodes_), avg)
        des == Filter(given, nodes_)
    IN  IF select
        THEN [selected |-> sel, deselected |-> des, items |-> sel,
              reported |-> Cardinality(nodes_)]
        ELSE LET sorted == sort_items_by_duration(des, avg)
             IN  [selected |-> sel, deselected |-> sorted,
                  items |-> sel \o sorted, reported |-> 0]

\* The assert at the head of TestmonSelect.pytest_collection_modifyitems: no
\* item's node id is one of the deselected files (a node id here is a file
\* followed by the names inside it).
NoItemIsDeselectedFile(given, files_) ==
    \A n \in Range(given) : ~(Len(n) = 1 /\ n[1] \in files_)

\* TestmonCollect.pytest_collection_modifyitems (tryfirst)
ModifyItemsCollect ==
    /\ pc = "collected"
    /\ "TestmonCollect" \in plugins
    /\ pc' = "modifyitems"
    /\ IF should_sync(testsfailed)
       THEN /\ db_nodes' = sync_db_fs_nodes(db_nodes, Range(raw_nodeids))
            /\ db_calls' = db_calls \cup {"sync_db_fs_nodes"}
       ELSE UNCHANGED <<db_nodes, db_calls>>
    /\ UNCHANGED <<fs, source, db_files, db0, should_collect, should_select,
                   plugins, testmon_data, deselected_files, deselected_nodes,
                   is_worker, raw_nodeids, ignored, collected, items, selected,
                   deselected, n_deselected, cur, phase, report, reports,
                   tracing, stops, host_failed, host_duration, host_trace,
                   host_done, testsfailed, exitstatus, session_exitstatus,
                   exit_message, save_calls, gc_process>>
    /\ UNCHANGED hookVars
    /\ UNCHANGED sortVars

\* The pytest_collection_modifyitems handlers of plain priority, which run
\* between TestmonCollect's and TestmonSelect's: the host's keyword
\* deselection may take an item out of session.items.
ModifyItemsPlain ==
    /\ \/ pc = "modifyitems"
       \/ pc = "collected" /\ "TestmonCollect" \notin plugins
    /\ pc' = "modifyitems_last"
    /\ \E drop \in {{}} \cup {{n} : n \in Range(items)} :
          items' = Filter(items, Range(items) \ drop)
    /\ UNCHANGED <<fs, source, db_nodes, db_files, db0, should_collect,
                   should_select, plugins, testmon_data, deselected_files,
                   deselected_nodes, is_worker, raw_nodeids, ignored, collected,
                   selected, deselected, n_deselected, cur, phase, report,
                   reports, tracing, stops, host_failed, host_duration,
                   host_trace, host_done, testsfailed, exitstatus,
                   session_exitstatus, exit_message, db_calls, save_calls,
                   gc_process>>
    /\ UNCHANGED hookVars
    /\ UNCHANGED sortVars

\* TestmonSelect.pytest_collection_modifyitems (trylast), after which the
\* host starts the run loop or ends the session.
ModifyItemsSelect ==
    /\ pc = "modifyitems_last"
    /\ "TestmonSelect" \in plugins
    /\ received' = items
    /\ IF ~NoItemIsDeselectedFile(items, deselected_files)
       THEN \* AssertionError
            /\ HostFinish("INTERNAL_ERROR")
            /\ UNCHANGED <<items, selected, deselected, n_deselected, cur, phase>>
       ELSE LET r == SelectModifyItems(items, deselected_nodes,
                                       testmon_data.avg_durations, should_select)
            IN  /\ selected' = r.selected
                /\ deselected' = r.deselected
                /\ items' = r.items
                /\ n_deselected' = r.reported
                /\ IF testsfailed > 0
                   THEN \* errors during collection: the host interrupts the session
                        /\ HostFinish("INTERRUPTED")
                        /\ UNCHANGED <<cur, phase>>
                   ELSE IF r.items = <<>>
                   THEN /\ HostFinish("NO_TESTS_COLLECTED")
                        /\ UNCHANGED <<cur, phase>>
                   ELSE /\ pc' = "running"
                        /\ cur' = 1
                        /\ phase' = "protocol"
                        /\ UNCHANGED <<exitstatus, session_exitstatus>>
    /\ UNCHANGED <<fs, source, db_nodes, db_files, db0, should_collect,
                   should_select, plugins, testmon_data, deselected_files,
                   deselected_nodes, is_worker, raw_nodeids, ignored, collected,
                   report, reports, tracing, stops, host_failed, host_duration,
                   host_trace, host_done, testsfailed, exit_message, db_calls,
                   save_calls, gc_process, collection, closed>>
    /\ UNCHANGED sortVars

(***************************************************************************)
(* Running one test: pytest_runtest_protocol, pytest_runtest_makereport,   *)
(* pytest_runtest_logreport.                                               *)
(***************************************************************************)
Item == items[cur]

\* TestmonCollect.pytest_runtest_protocol, up to the yield
ProtocolStart ==
    /\ pc = "running"
    /\ phase = "protocol"
    /\ phase' = "setup"
    /\ IF "TestmonCollect" \in plugins
       THEN tracing' = TRUE /\ stops' = 0
       ELSE UNCHANGED <<tracing, stops>>
    /\ UNCHANGED host_done
    /\ UNCHANGED <<pc, fs, source, db_nodes, db_files, db0, should_collect,
                   should_select, plugins, testmon_data, deselected_files,
                   deselected_nodes, is_worker, raw_nodeids, ignored, collected,
                   items, selected, deselected, n_deselected, cur, report,
                   reports, host_failed, host_duration, host_trace, testsfailed,
                   exitstatus, session_exitstatus, exit_message, db_calls,
                   save_calls, gc_process>>
    /\ UNCHANGED hookVars
    /\ UNCHANGED sortVars

\* The host runs one phase and makes its report;
\* TestmonCollect.pytest_runtest_makereport acts on the teardown report.
MakeReport ==
    /\ pc = "running"
    /\ phase \in Range(Phases)
    /\ report = Absent
    /\ \E outcome \in {"passed", "failed"}, duration \in PhaseDurations(phase) :
        LET made == [nodeid |-> Item, when |-> phase, outcome |-> outcome,
                     duration |-> duration, has_fingerprints |-> FALSE,
                     node_fingerprints |-> <<>>]
        IN  IF phase = "teardown" /\ "TestmonCollect" \in plugins
            THEN \E traced \in TraceChoices(Item) :
                    LET fp == [f \in traced |-> fs[f]]
                    IN  /\ report' = [made EXCEPT !.has_fingerprints = TRUE,
                                                  !.node_fingerprints = fp]
                        /\ host_trace' = [host_trace EXCEPT ![Item] = fp]
                        /\ tracing' = FALSE
                        /\ stops' = stops + 1
            ELSE /\ report' = made
                 /\ UNCHANGED <<host_trace, tracing, stops>>
    /\ UNCHANGED host_done
    /\ UNCHANGED <<pc, fs, source, db_nodes, db_files, db0, should_collect,
                   should_select, plugins, testmon_data, deselected_files,
                   deselected_nodes, is_worker, raw_nodeids, ignored, collected,
                   items, selected, deselected, n_deselected, cur, phase,
                   reports, host_failed, host_duration, testsfailed, exitstatus,
                   session_exitstatus, exit_message, db_calls, save_calls,
                   gc_process>>
    /\ UNCHANGED hookVars
    /\ UNCHANGED sortVars

NextPhase(when, outcome) ==
    CASE when = "setup" /\ outcome = "passed" -> "call"
      [] when = "setup"                       -> "teardown"
      [] when = "call"                        -> "teardown"
      [] OTHER                                -> "end"

SavesFromCall(rep) == rep.when \in {"call", "teardown"}

SavesOnAnyReport(rep) == TRUE

SavesOnCallReport(rep) == rep.when = "call"

\* TestmonCollect.pytest_runtest_logreport: whether the record is saved now.
SavesOn(rep) == rep.when = "teardown" /\ rep.has_fingerprints

LogReport ==
    /\ pc = "running"
    /\ report # Absent
    /\ LET n == report.nodeid
           buffered == [w \in DOMAIN reports[n] \cup {report.when} |->
                            IF w = report.when THEN report ELSE reports[n][w]]
       IN  \* session.testsfailed is only ever tested for zero: the count stops at 1
           /\ testsfailed' = IF report.outcome = "failed" THEN 1 ELSE testsfailed
           /\ host_failed' = [host_failed EXCEPT
                                 ![n] = @ \/ report.outcome = "failed"]
           /\ host_duration' = [host_duration EXCEPT ![n] = @ + report.duration]
           /\ host_done' = IF report.when = "teardown"
                           THEN host_done \cup {n} ELSE host_done
           /\ IF "TestmonCollect" \notin plugins
              THEN UNCHANGED <<reports, db_nodes, db_files, db_calls, save_calls>>
              ELSE IF SavesOn(report)
              THEN LET r == process_result(buffered)
                   IN  /\ db_nodes' = save_fingerprints(db_nodes, n,
                                         report.node_fingerprints,
                                         r.failed, r.duration)
                       /\ db_files' = save_checksums(db_files,
                                                     report.node_fingerprints)
                       /\ db_calls' = db_calls \cup {"save_fingerprints"}
                       /\ save_calls' = [save_calls EXCEPT ![n] = @ + 1]
                       /\ reports' = [reports EXCEPT ![n] = <<>>]
              ELSE /\ reports' = [reports EXCEPT ![n] = buffered]
                   /\ UNCHANGED <<db_nodes, db_files, db_calls, save_calls>>
    /\ phase' = NextPhase(report.when, report.outcome)
    /\ report' = Absent
    /\ UNCHANGED <<pc, fs, source, db0, should_collect, should_select, plugins,
                   testmon_data, deselected_files, deselected_nodes, is_worker,
                   raw_nodeids, ignored, collected, items, selected, deselected,
                   n_deselected, cur, tracing, stops, host_trace, exitstatus,
                   session_exitstatus, exit_message, gc_process>>
    /\ UNCHANGED hookVars
    /\ UNCHANGED sortVars

\* TestmonCollect.pytest_runtest_protocol after the yield, no exception
ProtocolEnd ==
    /\ pc = "running"
    /\ phase = "end"
    /\ IF cur < Len(items)
       THEN /\ cur' = cur + 1
            /\ phase' = "protocol"
            /\ UNCHANGED <<pc, exitstatus, session_exitstatus>>
       ELSE /\ HostFinish(IF testsfailed > 0 THEN "TESTS_FAILED" ELSE "OK")
            /\ UNCHANGED <<cur, phase>>
    /\ UNCHANGED host_done
    /\ UNCHANGED <<fs, source, db_nodes, db_files, db0, should_collect,
                   should_select, plugins, testmon_data, deselected_files,
                   deselected_nodes, is_worker, raw_nodeids, ignored, collected,
                   items, selected, deselected, n_deselected, report, reports,
                   tracing, stops, host_failed, host_duration, host_trace,
                   testsfailed, exit_message, db_calls, save_calls, gc_process>>
    /\ UNCHANGED hookVars
    /\ UNCHANGED sortVars

\* TestmonCollect.pytest_runtest_protocol after the yield, with an exception
\* (KeyboardInterrupt or Exit) raised inside the protocol: before a phase,
\* after the last one, or between the making and the logging of the teardown
\* report (for the other reports that point is like the one before the phase:
\* the plugin has not acted on them).
ProtocolAbort ==
    /\ pc = "running"
    /\ phase # "protocol"
    /\ IF report = Absent THEN TRUE ELSE report.when = "teardown"
    /\ HostFinish("INTERRUPTED")
    /\ IF "TestmonCollect" \in plugins
       THEN tracing' = FALSE /\ stops' = stops + 1
       ELSE UNCHANGED <<tracing, stops>>
    /\ UNCHANGED host_done
    /\ UNCHANGED <<fs, source, db_nodes, db_files, db0, should_collect,
                   should_select, plugins, testmon_data, deselected_files,
                   deselected_nodes, is_worker, raw_nodeids, ignored, collected,
                   items, selected, deselected, n_deselected, cur, phase,
                   report, reports, host_failed, host_duration, host_trace,
                   testsfailed, exit_message, db_calls, save_calls, gc_process>>
    /\ UNCHANGED hookVars
    /\ UNCHANGED sortVars

(***************************************************************************)
(* pytest_sessionfinish: TestmonCollect's handler, then TestmonSelect's.   *)
(***************************************************************************)
\* TestmonCollect.pytest_sessionfinish: whether the garbage collection runs.
RunsGarbageCollection(worker_flag) == ~Truthy(worker_flag)

SelectSessionFinishKeeps(nodes_, status, current) == current

\* TestmonSelect.pytest_sessionfinish: the new session.exitstatus.
SelectSessionFinish(nodes_, status, current) ==
    IF Cardinality(nodes_) # 0 /\ status = "NO_TESTS_COLLECTED"
    THEN "OK" ELSE current

\* TestmonCollect.pytest_sessionfinish: the garbage collection unless
\* is_worker is truthy, then self.testmon.close() on every path.  The tracer
\* is already stopped when a session finishes, so close() is recorded as a
\* call; the engine absorbs storage errors (spec 7c), so the garbage
\* collection returns.
SessionFinishCollect ==
    /\ pc = "finishing"
    /\ "TestmonCollect" \in plugins
    /\ pc' = "finishing_last"
    /\ \E xdist_worker \in BOOLEAN :
        IF RunsGarbageCollection(is_worker)
        THEN /\ db_files' = remove_unused_fingerprints(db_nodes, db_files)
             /\ db_calls' = db_calls \cup {"remove_unused_fingerprints"}
             /\ gc_process' = IF xdist_worker THEN "worker" ELSE "main"
        ELSE UNCHANGED <<db_files, db_calls, gc_process>>
    /\ closed' = TRUE
    /\ UNCHANGED <<fs, source, db_nodes, db0, should_collect, should_select,
                   plugins, testmon_data, deselected_files, deselected_nodes,
                   is_worker, raw_nodeids, ignored, collected, items, selected,
                   deselected, n_deselected, cur, phase, report, reports,
                   tracing, stops, host_failed, host_duration, host_trace,
                   host_done, testsfailed, exitstatus, session_exitstatus,
                   exit_message, save_calls, collection, received>>
    /\ UNCHANGED sortVars

\* TestmonSelect.pytest_sessionfinish (trylast)
SessionFinishSelect ==
    /\ \/ pc = "finishing_last"
       \/ pc = "finishing" /\ "TestmonCollect" \notin plugins
    /\ "TestmonSelect" \in plugins
    /\ pc' = "finished"
    /\ session_exitstatus' =
          SelectSessionFinish(deselected_nodes, exitstatus, session_exitstatus)
    /\ UNCHANGED <<fs, source, db_nodes, db_files, db0, should_collect,
                   should_select, plugins, testmon_data, deselected_files,
                   deselected_nodes, is_worker, raw_nodeids, ignored, collected,
                   items, selected, deselected, n_deselected, cur, phase,
                   report, reports, tracing, stops, host_failed, host_duration,
                   host_trace, host_done, testsfailed, exitstatus, exit_message,
                   db_calls, save_calls, gc_process>>
    /\ UNCHANGED hookVars
    /\ UNCHANGED sortVars

Next ==
    \/ Configure
    \/ CollectPath
    \/ MakeItem
    \/ CollectionDone
    \/ CollectAbort
    \/ ModifyItemsCollect
    \/ ModifyItemsPlain
    \/ ModifyItemsSelect
    \/ ProtocolStart
    \/ MakeReport
    \/ LogReport
    \/ ProtocolEnd
    \/ ProtocolAbort
    \/ SessionFinishCollect
    \/ SessionFinishSelect

Spec == Init /\ [][Next]_vars

(***************************************************************************)
(* The orderer alone: sort_items_by_duration on any list of distinct tests *)
(* and any recorded durations, one items.sort call per step.               *)
(***************************************************************************)
RECURSIVE ListsOf(_)
ListsOf(S) ==
    {<<>>} \cup UNION {{<<x>> \o rest : rest \in ListsOf(S \ {x})} : x \in S}

SortInit ==
    /\ RunIdle
    /\ sort_durations \in [NodeIds -> 0..MaxDur]
    /\ sort_input \in ListsOf(NodeIds)
    /\ sort_items = sort_input
    /\ sort_done = <<>>

SortStep ==
    /\ Len(sort_done) < Len(SortPasses)
    /\ LET which == SortPasses[Len(sort_done) + 1]
       IN  /\ sort_items' = sort_pass(sort_items, AvgDurations(sort_durations), which)
           /\ sort_done' = Append(sort_done, which)
    /\ UNCHANGED <<sort_input, sort_durations>>
    /\ UNCHANGED runVars

SortNext == SortStep

SortSpec == SortInit /\ [][SortNext]_vars

(***************************************************************************)
(* Notions used by the properties.                                         *)
(***************************************************************************)
PosIn(seq, x) == CHOOSE i \in 1..Len(seq) : seq[i] = x

CompositeKey(nodeid, avg) ==
    <<avg[get_node_module_name(nodeid)], avg[get_node_class_name(nodeid)],
      avg[nodeid]>>

LexLess(a, b) ==
    \/ a[1] < b[1]
    \/ a[1] = b[1] /\ a[2] < b[2]
    \/ a[1] = b[1] /\ a[2] = b[2] /\ a[3] < b[3]

\* out is inp reordered by one stable ascending sort on the composite key.
IsCompositeStableSort(out, inp, avg) ==
    /\ Len(out) = Len(inp)
    /\ Range(out) = Range(inp)
    /\ \A i, j \in 1..Len(out) :
          i < j =>
            \/ LexLess(CompositeKey(out[i], avg), CompositeKey(out[j], avg))
            \/ /\ CompositeKey(out[i], avg) = CompositeKey(out[j], avg)
               /\ PosIn(inp, out[i]) < PosIn(inp, out[j])

\* The members of S occupy consecutive places of seq.
Contiguous(seq, S) ==
    \A i, j, k \in 1..Len(seq) :
        (i < j /\ j < k /\ seq[i] \in S /\ seq[k] \in S) => seq[j] \in S

SortFinished == Len(sort_done) = 3

SortAvg == AvgDurations(sort_durations)

\* TestmonSelect's pytest_collection_modifyitems has run to its end in this
\* session; 'received' is the list it was given.
ItemsModified ==
    /\ collection.finished
    /\ pc \in {"running", "finishing", "finishing_last", "finished"}
    /\ exitstatus \notin {"USAGE_ERROR", "INTERNAL_ERROR"}

SelectorActive == "TestmonSelect" \in plugins /\ pc # "exited"

\* Every file of the test's persisted fingerprint still has the checksum
\* that was persisted with it.
FingerprintUnchanged(nodeid) ==
    \A f \in DOMAIN db0[nodeid].fingerprint :
        fs[f] = db0[nodeid].fingerprint[f]

Deselectable(nodeid) ==
    /\ db0[nodeid] # Absent
    /\ FingerprintUnchanged(nodeid)
    /\ ~db0[nodeid].failed

(***************************************************************************)
(* Properties of the orderer (under SortSpec).                             *)
(***************************************************************************)
\* C9: when the three sort calls are done, the list is the input reordered by
\* one stable ascending sort on the composite key (module average, class
\* average, test average): ascending lexicographically, and tests of equal
\* key in their original collection order.
C9_CompositeStableSort ==
    SortFinished => IsCompositeStableSort(sort_items, sort_input, SortAvg)

\* A full list that the orderer changed and in which two tests tie on the
\* whole composite key.
C9_Witness ==
    /\ SortFinished
    /\ Len(sort_input) = Cardinality(NodeIds)
    /\ sort_items # sort_input
    /\ \E a, b \in NodeIds :
          a # b /\ CompositeKey(a, SortAvg) = CompositeKey(b, SortAvg)

ModuleTests(m) == {n \in NodeIds : get_node_module_name(n) = m}
ClassTests(c) == {n \in NodeIds : Len(n) = 3 /\ get_node_class_name(n) = c}
ModulesIn(seq) == {get_node_module_name(n) : n \in Range(seq)}
ClassKeysIn(seq, m) ==
    {get_node_class_name(n) : n \in Range(seq) \cap ModuleTests(m)}
ClassesIn(seq) ==
    {get_node_class_name(n) : n \in {x \in Range(seq) : Len(x) = 3}}

\* Ascending order of the three averages: faster modules first, faster
\* classes first within a module, faster tests first within a class.
FasterFirst(seq, avg) ==
    \A i, j \in 1..Len(seq) :
        i < j =>
          /\ avg[get_node_module_name(seq[i])] <= avg[get_node_module_name(seq[j])]
          /\ get_node_module_name(seq[i]) = get_node_module_name(seq[j])
                => avg[get_node_class_name(seq[i])] <= avg[get_node_class_name(seq[j])]
          /\ get_node_class_name(seq[i]) = get_node_class_name(seq[j])
                => avg[seq[i]] <= avg[seq[j]]

\* The list is in collection order: module by module, class by class.
InputGrouped ==
    /\ \A m \in ModulesIn(sort_input) : Contiguous(sort_input, ModuleTests(m))
    /\ \A c \in ClassesIn(sort_input) : Contiguous(sort_input, ClassTests(c))

\* C10 as stated: after the orderer, every module is one contiguous block,
\* inside a module every class is one contiguous block, and the three
\* averages ascend (modules, classes in a module, tests in a class).  It is
\* stated here for lists given in collection order only.
C10_GroupedAlways ==
    (SortFinished /\ InputGrouped) =>
        /\ FasterFirst(sort_items, SortAvg)
        /\ \A m \in ModulesIn(sort_items) :
              Contiguous(sort_items, ModuleTests(m))
        /\ \A c \in ClassesIn(sort_items) :
              Contiguous(Filter(sort_items, ModuleTests(<<c[1]>>)), ClassTests(c))

\* C10 amended: the averages ascend; a module is one contiguous block when no
\* other module of the list has the same average, and a class is one
\* contiguous block among its module's tests when no other class key of that
\* module in the list has the same average.
C10_GroupedUnlessTied ==
    SortFinished =>
        /\ FasterFirst(sort_items, SortAvg)
        /\ \A m \in ModulesIn(sort_items) :
              (\A o \in ModulesIn(sort_items) \ {m} : SortAvg[o] # SortAvg[m])
                  => Contiguous(sort_items, ModuleTests(m))
        /\ \A c \in ClassesIn(sort_items) :
              (\A o \in ClassKeysIn(sort_items, <<c[1]>>) \ {c} :
                    SortAvg[o] # SortAvg[c])
                  => Contiguous(Filter(sort_items, ModuleTests(<<c[1]>>)),
                                ClassTests(c))

\* A full list without ties between modules or between classes of a module,
\* collected with the modules interleaved, which the orderer regrouped.
C10_Witness ==
    /\ SortFinished
    /\ Len(sort_input) = Cardinality(NodeIds)
    /\ ~Contiguous(sort_input, ModuleTests(<<"m1.py">>))
    /\ SortAvg[<<"m1.py">>] # SortAvg[<<"m2.py">>]
    /\ SortAvg[<<"m1.py", "A">>] # SortAvg[<<"m1.py", "B">>]
    /\ sort_items # sort_input

(***************************************************************************)
(* Properties of the run (under Spec).                                     *)
(***************************************************************************)
\* C1: with selection active, a collected test (one of the items the
\* selection handler is given) is missing from the list to execute exactly when it has a persisted record, every file of its persisted
\* fingerprint still has the persisted checksum, and its last outcome is not
\* failed.
C1_RemovedIffStableAndPassed ==
    (ItemsModified /\ SelectorActive /\ should_select) =>
        \A t \in Range(received) :
            (t \notin Range(items)) <=> Deselectable(t)

\* One collected test was removed while another, recorded and passed, stays
\* because a file of its fingerprint changed.
C1_Witness ==
    /\ ItemsModified /\ SelectorActive /\ should_select
    /\ \E t \in Range(received) : t \notin Range(items)
    /\ \E u \in Range(received) :
          /\ u \in Range(items)
          /\ db0[u] # Absent
          /\ ~db0[u].failed
          /\ ~FingerprintUnchanged(u)

\* C2: a test whose last recorded outcome is failed is never a member of
\* deselected_nodes, and with selection active it stays in the list when it
\* was collected, also when every file of its fingerprint is unchanged.
C2_FailedNeverDeselected ==
    SelectorActive =>
        \A n \in RunNodes :
            (db0[n] # Absent /\ db0[n].failed) =>
                /\ n \notin deselected_nodes
                /\ (ItemsModified /\ n \in Range(received)) => n \in Range(items)

\* A failed test with an unchanged fingerprint was collected under active
\* selection and is in the list to run.
C2_Witness ==
    /\ ItemsModified /\ SelectorActive /\ should_select
    /\ \E n \in Range(items) :
          db0[n] # Absent /\ db0[n].failed /\ FingerprintUnchanged(n)

\* C3: the lists 'selected' and 'deselected' of
\* TestmonSelect.pytest_collection_modifyitems are disjoint and together hold
\* exactly the items the handler was given, each once.
C3_SelectedDeselectedPartition ==
    (ItemsModified /\ SelectorActive) =>
        /\ Range(selected) \cap Range(deselected) = {}
        /\ Range(selected) \cup Range(deselected) = Range(received)
        /\ Len(selected) + Len(deselected) = Len(received)

C3_Witness ==
    /\ ItemsModified /\ SelectorActive
    /\ selected # <<>>
    /\ deselected # <<>>

CompleteRecord(n) ==
    [fingerprint |-> host_trace[n], failed |-> host_failed[n],
     duration |-> host_duration[n]]

\* C4: at every point of a run (so wherever the process may die), the
\* persisted record of a test whose teardown report has been logged is its
\* complete new record (fingerprint, outcome, total duration), and the record
\* of any other test holds nothing new: it is the record from before the run,
\* or absent.
C4_CommitAtomic ==
    \A n \in RunNodes :
        IF n \in host_done /\ "TestmonCollect" \in plugins
        THEN db_nodes[n] = CompleteRecord(n)
        ELSE db_nodes[n] \in {db0[n], Absent}

\* Between two commits: the first test's new record is stored, the second
\* test has reports buffered and still has its old record.
C4_Witness ==
    /\ pc = "running"
    /\ cur = 2
    /\ items[1] \in host_done
    /\ db_nodes[items[1]] # db0[items[1]]
    /\ reports[items[2]] # <<>>
    /\ db0[items[2]] # Absent
    /\ db_nodes[items[2]] = db0[items[2]]

\* C5: the garbage collection remove_unused_fingerprints() is never run by a
\* worker process.
C5_GcNeverInWorker == gc_process # "worker"

AllDeselected == source # {} /\ \A t \in source : Deselectable(t)

\* C6: when selection is active, every existing test is deselected and the
\* host reports 'no tests collected', the session ends with exit status OK.
C6_ExitStatusNormalized ==
    (pc = "finished" /\ SelectorActive /\ should_select /\ AllDeselected
        /\ exitstatus = "NO_TESTS_COLLECTED")
    => session_exitstatus = "OK"

\* The tests were collected and every one of them was deselected.
C6_Witness ==
    /\ pc = "finished" /\ SelectorActive /\ should_select /\ AllDeselected
    /\ exitstatus = "NO_TESTS_COLLECTED"
    /\ collected # <<>>
    /\ items = <<>>

\* C7: with TestmonSelect registered and selection disabled, no file is
\* ignored, and the list after pytest_collection_modifyitems is a permutation
\* of the items the handler was given in which the not-deselectable items come first and
\* each of the two groups is in the orderer's order.
C7_NoSelectOnlyOrders ==
    (SelectorActive /\ ~should_select) =>
        /\ ignored = {}
        /\ ItemsModified =>
            LET des == {t \in Range(received) : Deselectable(t)}
                sel == Range(received) \ des
            IN  /\ Len(items) = Len(received)
                /\ Range(items) = Range(received)
                /\ \A i, j \in 1..Len(items) :
                      (i < j /\ items[i] \in des) => items[j] \in des
                /\ IsCompositeStableSort(Filter(items, sel), Filter(received, sel),
                                         testmon_data.avg_durations)
                /\ IsCompositeStableSort(Filter(items, des), Filter(received, des),
                                         testmon_data.avg_durations)

\* Both groups are present and the list differs from the collection order.
C7_Witness ==
    /\ SelectorActive /\ ~should_select /\ ItemsModified
    /\ items # received
    /\ \E t \in Range(items) : Deselectable(t)
    /\ \E t \in Range(items) : ~Deselectable(t)

\* C8: when collection is disabled TestmonCollect is not registered and the
\* persisted nodes (fingerprints, outcomes, durations) and file checksums stay
\* as they were: no save_fingerprints, sync_db_fs_nodes or
\* remove_unused_fingerprints is invoked.
C8_NoCollectWritesNothing ==
    ~should_collect =>
        /\ "TestmonCollect" \notin plugins
        /\ db_nodes = db0
        /\ db_files = [f \in Referenced(db0) |-> "h1"]
        /\ db_calls = {}

\* A selecting run without collection that executed a test to its end, with
\* an outcome other than the recorded one.
C8_Witness ==
    /\ pc = "finished" /\ ~should_collect /\ should_select
    /\ \E n \in host_done : db0[n] # Absent /\ db0[n].failed # host_failed[n]

\* C11: sync_db_fs_nodes is invoked only by the collection_modifyitems step,
\* before any test has been executed or recorded, and only when
\* session.testsfailed is zero at that moment; when failures have been
\* counted the step leaves the persisted test nodes as they are, and no other
\* step removes a persisted test node.
C11_SyncOnlyEarlyAndUnfailed ==
    [][/\ ("sync_db_fs_nodes" \in db_calls' /\ "sync_db_fs_nodes" \notin db_calls)
            => /\ pc = "collected"
               /\ testsfailed = 0
               /\ cur = 0
               /\ host_done = {}
               /\ \A n \in RunNodes : save_calls[n] = 0
       /\ (pc = "collected" /\ testsfailed # 0)
            => /\ db_nodes' = db_nodes
               /\ db_calls' = db_calls
       /\ pc # "collected" => Persisted(db_nodes) \subseteq Persisted(db_nodes')
      ]_vars

\* The reconciliation ran before the first test started and removed a record.
C11_Witness ==
    /\ pc = "running" /\ cur = 1 /\ phase = "protocol"
    /\ "sync_db_fs_nodes" \in db_calls
    /\ \E n \in RunNodes : db0[n] # Absent /\ db_nodes[n] = Absent

\* The run was ended by an exception raised inside a test's protocol; Item is
\* that test.
AbortedInProtocol ==
    /\ pc \in {"finishing", "finishing_last", "finished"}
    /\ exitstatus = "INTERRUPTED"
    /\ phase \notin {"idle", "protocol"}

\* C12: when a test's protocol is aborted before its teardown report has been
\* produced and logged, save_fingerprints has not been called for that test,
\* its persisted record is the one from before the run (or still absent), and
\* tracing is stopped.
C12_AbortedTestNotSaved ==
    (AbortedInProtocol /\ "TestmonCollect" \in plugins /\ Item \notin host_done)
    => /\ save_calls[Item] = 0
       /\ db_nodes[Item] = db0[Item]
       /\ ~tracing

\* A recorded test was aborted after some of its phase reports were logged.
C12_Witness ==
    /\ AbortedInProtocol /\ "TestmonCollect" \in plugins
    /\ Item \notin host_done
    /\ "setup" \in DOMAIN reports[Item]
    /\ db0[Item] # Absent

\* C13: when init_testmon_data or register_plugins raises TestmonException in
\* pytest_configure, the run is over with the error's message: nothing is
\* ignored, collected, deselected or executed, and nothing is written.
C13_ConfigureErrorFatal ==
    exit_message # None =>
        /\ pc = "exited"
        /\ exit_message \in ConfigureErrors \ {"none"}
        /\ ignored = {}
        /\ collection.made = <<>>
        /\ collected = <<>>
        /\ items = <<>>
        /\ deselected = <<>>
        /\ n_deselected = 0
        /\ cur = 0
        /\ host_done = {}
        /\ db_nodes = db0
        /\ db_calls = {}

\* register_plugins failed after TestmonSelect was built with tests to
\* deselect.
C13_Witness ==
    /\ pc = "exited"
    /\ exit_message = "register_plugins"
    /\ should_select
    /\ deselected_nodes # {}

\* C14: with selection active, a file whose collection pytest_ignore_collect
\* skipped contains no test that needs to run: every test of the file is
\* recorded, has an unchanged fingerprint and did not fail, so the node-level
\* decision would deselect it too.
C14_SkippedFileHasNoTestToRun ==
    (SelectorActive /\ should_select) =>
        \A f \in ignored :
            \A t \in source : home_file(t) = f => Deselectable(t)

\* C15: sync_db_fs_nodes only removes records of tests that no longer exist
\* in the source: once it has run, every test that still exists and had a
\* record before the run still has one, whether or not it was collected.
C15_SyncKeepsExistingTests ==
    "sync_db_fs_nodes" \in db_calls =>
        \A n \in source : db0[n] # Absent => db_nodes[n] # Absent

\* C16: the outcome and duration saved for a test are: failed exactly when
\* one of the phase reports logged for that test has outcome 'failed', and
\* the sum of the durations of the phase reports logged for that test; the
\* reports of other tests do not enter.
C16_SavedOutcomeAndDuration ==
    "TestmonCollect" \in plugins =>
        \A n \in host_done :
            /\ db_nodes[n].failed = host_failed[n]
            /\ db_nodes[n].duration = host_duration[n]

\* Two tests were saved: one failed in setup (two reports), the other passed
\* all three phases with the longest call.
C16_Witness ==
    /\ "TestmonCollect" \in plugins
    /\ \E n, m \in host_done :
          /\ db_nodes[n].failed /\ db_nodes[n].duration = 2
          /\ ~db_nodes[m].failed /\ db_nodes[m].duration = MaxDur + 2

\* C17: save_fingerprints is called exactly once for a test that ran to the
\* end of its lifecycle, passed or failed, and that call is made when the
\* teardown report is logged: a test whose teardown report is not logged yet
\* has no call, and after the call none of the test's reports is buffered.
C17_SavedOnceAtTeardown ==
    "TestmonCollect" \in plugins =>
        \A n \in RunNodes :
            IF n \in host_done
            THEN save_calls[n] = 1 /\ reports[n] = <<>>
            ELSE save_calls[n] = 0

\* A test that failed has been saved, and the next one has logged its setup
\* and call reports.
C17_Witness ==
    /\ "TestmonCollect" \in plugins
    /\ pc = "running"
    /\ \E n \in host_done : host_failed[n] /\ save_calls[n] = 1
    /\ \E m \in RunNodes \ host_done : DOMAIN reports[m] = {"setup", "call"}

IsPrefix(p, q) == Len(p) <= Len(q) /\ \A i \in 1..Len(p) : p[i] = q[i]

\* seq ascends by the key of the pass 'which'.
AscendsBy(seq, avg, which) ==
    \A i, j \in 1..Len(seq) :
        i < j => avg[SortKey(seq[i], which)] <= avg[SortKey(seq[j], which)]

\* The passes done so far follow 'order', and the list ascends by the key of
\* the last pass done.
PassesFollow(order) ==
    /\ IsPrefix(sort_done, order)
    /\ sort_done # <<>> =>
          AscendsBy(sort_items, SortAvg, order[Len(sort_done)])

\* C18 as stated: the passes run from coarsest to finest: by module average,
\* then by class average, then by the test's own average.
C18_CoarseToFine == PassesFollow(<<"module", "class", "node">>)

\* C18 amended: the passes run from finest to coarsest: by the test's own
\* average, then by class average, then by module average.
C18_FineToCoarse == PassesFollow(<<"node", "class", "module">>)

\* All three passes are done on a full list, and the result is not the one
\* the passes give in the order module, class, test.
C18_Witness ==
    /\ SortFinished
    /\ Len(sort_input) = Cardinality(NodeIds)
    /\ sort_items #
          sort_pass(sort_pass(sort_pass(sort_input, SortAvg, "module"),
                              SortAvg, "class"),
                    SortAvg, "node")

\* A test's protocol has been started in this run.
ProtocolStarted == cur >= 1 /\ ~(cur = 1 /\ phase = "protocol")

\* C19: each testmon.start() is followed by exactly one stop before the next
\* start or the end of the run: tracing is on exactly while the started test
\* has not been stopped, it is off between tests and at the end, and no start
\* is stopped twice.
C19_StartStopPaired ==
    ("TestmonCollect" \in plugins /\ ProtocolStarted) =>
        /\ stops <= 1
        /\ tracing <=> stops = 0
        /\ (phase \in {"protocol", "end"} \/ pc # "running") => stops = 1

\* Selection took at least one existing test out of this run.
RemovedSomeTest ==
    \/ deselected # <<>>
    \/ \E t \in source : home_file(t) \in ignored

\* C20: pytest_sessionfinish leaves the session's exit status as the host
\* reported it, except that 'no tests collected' becomes OK; and it makes that
\* change only in a run with selection enabled in which selection removed at
\* least one test.
C20_RewrittenOnlyWhenEmptiedByDeselection ==
    pc = "finished" =>
        /\ session_exitstatus \in {exitstatus, "OK"}
        /\ session_exitstatus # exitstatus =>
              /\ exitstatus = "NO_TESTS_COLLECTED"
              /\ should_select
              /\ RemovedSomeTest

====
